---- MODULE Spec2Model ----
(***************************************************************************)
(* Seat hold / reservation engine of seat-api.                             *)
(*                                                                         *)
(* The store is the pair of module-level Maps `holds` and `reserved` of    *)
(* services/asientos.service.js.  Every Express handler of                 *)
(* controllers/asientos.controller.js is synchronous (no await), so on the *)
(* single Node.js thread a handler runs to completion before any other     *)
(* handler or the setInterval callback runs: one action per handler.       *)
(*                                                                         *)
(* Strings that the code concatenates or splits (rutaId, fecha, the seat   *)
(* as submitted, the map keys) are sequences of one-character strings.     *)
(* Time is Date.now() in units of one clock reading.                       *)
(***************************************************************************)
EXTENDS Integers, Sequences, FiniteSets

VARIABLES holds, reserved, now, nextUuid, nreq, last, issued, twin, ui

vars == <<holds, reserved, now, nextUuid, nreq, last, issued, twin, ui>>

----------------------------------------------------------------------------
(* Bounds of the model *)

MaxTime == 4
MaxReq == 4

(* Largest quantity priced *)
MaxQuantity == 40

(* SEAT_HOLD_TTL_MS: read once from the environment at module load; the    *)
(* model runs with the variable set to 2.                                  *)
SEAT_HOLD_TTL_MS == 2

(* Number of seats per route and date, the literal 40 of the service loop  *)
(* and of the controller's range check.                                    *)
TotalSeats == 40

----------------------------------------------------------------------------
(* JavaScript values *)

NaN == -1

Digits == <<"0", "1", "2", "3", "4", "5", "6", "7", "8", "9">>

IsDigit(c) == \E i \in 1..10 : Digits[i] = c

DigitVal(c) == (CHOOSE i \in 1..10 : Digits[i] = c) - 1

RECURSIVE DigitsOf(_)
DigitsOf(n) == IF n < 10 THEN <<Digits[n + 1]>>
               ELSE DigitsOf(n \div 10) \o <<Digits[(n % 10) + 1]>>

(* A seat as it arrives in the JSON body: a number, a string, the boolean  *)
(* true, or absent.                                                        *)
Num(n) == [kind |-> "num", n |-> n, s |-> <<>>]
Str(s) == [kind |-> "str", n |-> 0, s |-> s]
JsTrue == [kind |-> "bool", n |-> 1, s |-> <<>>]
Undefined == [kind |-> "undef", n |-> 0, s |-> <<>>]

(* `${asiento}` inside the template literal of makeKey *)
AsientoString(a) == CASE a.kind = "num" -> DigitsOf(a.n)
                   [] a.kind = "str" -> a.s
                   [] a.kind = "bool" -> <<"t", "r", "u", "e">>
                   [] OTHER -> <<"u", "n", "d", "e", "f", "i", "n", "e", "d">>

RECURSIVE DecimalValue(_)
DecimalValue(s) == IF s = <<>> THEN 0
                   ELSE 10 * DecimalValue(SubSeq(s, 1, Len(s) - 1)) + DigitVal(s[Len(s)])

(* Number(asiento), the coercion behind isNaN(asiento), asiento < 1 and    *)
(* asiento > 40: a string of digits is its decimal value, the empty string *)
(* is 0, any other string is NaN, true is 1.                               *)
ToNumber(a) == CASE a.kind = "num" -> a.n
                 [] a.kind = "bool" -> a.n
                 [] a.kind = "str" ->
                      IF \A i \in 1..Len(a.s) : IsDigit(a.s[i])
                      THEN DecimalValue(a.s) ELSE NaN
                 [] OTHER -> NaN

RECURSIVE LeadingDigits(_)
LeadingDigits(s) == IF s = <<>> \/ ~IsDigit(Head(s)) THEN <<>>
                    ELSE <<Head(s)>> \o LeadingDigits(Tail(s))

(* parseInt(seat, 10): the value of the leading run of digits, NaN when    *)
(* there is none.                                                          *)
parseInt(s) == IF LeadingDigits(s) = <<>> THEN NaN
               ELSE DecimalValue(LeadingDigits(s))

RECURSIVE Split(_)
(* key.split('|') *)
Split(s) ==
    IF \A i \in 1..Len(s) : s[i] # "|" THEN <<s>>
    ELSE LET p == CHOOSE i \in 1..Len(s) :
                      s[i] = "|" /\ \A j \in 1..(i - 1) : s[j] # "|"
         IN <<SubSeq(s, 1, p - 1)>> \o Split(SubSeq(s, p + 1, Len(s)))

----------------------------------------------------------------------------
(* services/asientos.service.js *)

makeKey(rutaId, fecha, asiento) ==
    rutaId \o <<"|">> \o fecha \o <<"|">> \o AsientoString(asiento)

Restrict(m, ks) == [k \in ks |-> m[k]]

Put(m, k, v) == [x \in (DOMAIN m) \cup {k} |-> IF x = k THEN v ELSE m[x]]

(* The sweep comparing the clock with createdAt instead of expiresAt *)
ExpiredKeys_byCreatedAt(h, t) == {k \in DOMAIN h : t > h[k].createdAt}

(* The keys the sweep deletes at time t *)
ExpiredKeys(h, t) == {k \in DOMAIN h : t > h[k].expiresAt}

(* A sweep that stops after the first entry it deletes *)
purgeExpiredHolds_stopsAtFirst(h, t) ==
    IF ExpiredKeys(h, t) = {} THEN [holds |-> h, purged |-> 0]
    ELSE [holds |-> Restrict(h, (DOMAIN h) \
                        {CHOOSE k \in ExpiredKeys(h, t) : TRUE}),
          purged |-> 1]

purgeExpiredHolds(h, t) ==
    [holds |-> Restrict(h, (DOMAIN h) \ ExpiredKeys(h, t)),
     purged |-> Cardinality(ExpiredKeys(h, t))]

(* The seat numbers the two loops over the maps collect for a route/date *)
OccupiedIn(m, rutaId, fecha) ==
    {parseInt(Split(k)[3]) : k \in {x \in DOMAIN m :
        Split(x)[1] = rutaId /\ Split(x)[2] = fecha}}

RECURSIVE AvailableFrom(_, _)
AvailableFrom(i, occupiedSeats) ==
    IF i > TotalSeats THEN <<>>
    ELSE (IF i \in occupiedSeats THEN <<>> ELSE <<i>>)
         \o AvailableFrom(i + 1, occupiedSeats)

getAvailableSeats(h, r, rutaId, fecha) ==
    AvailableFrom(1, OccupiedIn(h, rutaId, fecha) \cup OccupiedIn(r, rutaId, fecha))

(* holdId = `hold_${now}`, without the uuid *)
MakeHoldId_timeOnly(t, uuid) == <<t, 0>>

(* holdId = `hold_${now}_${uuidv4()}`: the time and a fresh uuid *)
MakeHoldId(t, uuid) == <<t, uuid>>

(* createHold that renews the lifetime of the stored hold when it refuses *)
createHold_refreshOnConflict(h, r, rutaId, fecha, asiento, userId, t, uuid) ==
    LET key == makeKey(rutaId, fecha, asiento) IN
    IF key \in DOMAIN h
    THEN [holds |-> [h EXCEPT ![key].expiresAt = t + SEAT_HOLD_TTL_MS],
          reserved |-> r,
          result |-> [ok |-> FALSE, error |-> "Seat already occupied or on hold"]]
    ELSE IF key \in DOMAIN r
    THEN [holds |-> h, reserved |-> r,
          result |-> [ok |-> FALSE, error |-> "Seat already occupied or on hold"]]
    ELSE [holds |-> Put(h, key, [holdId |-> MakeHoldId(t, uuid),
                                 rutaId |-> rutaId, fecha |-> fecha,
                                 asiento |-> asiento, userId |-> userId,
                                 createdAt |-> t,
                                 expiresAt |-> t + SEAT_HOLD_TTL_MS]),
          reserved |-> r,
          result |-> [ok |-> TRUE, holdId |-> MakeHoldId(t, uuid),
                      expiresAt |-> t + SEAT_HOLD_TTL_MS,
                      remainingMs |-> SEAT_HOLD_TTL_MS]]

(* createHold that stores an expiry other than the one it answers *)
createHold_storesOtherExpiry(h, r, rutaId, fecha, asiento, userId, t, uuid) ==
    LET key == makeKey(rutaId, fecha, asiento) IN
    IF key \in DOMAIN h \/ key \in DOMAIN r
    THEN [holds |-> h, reserved |-> r,
          result |-> [ok |-> FALSE, error |-> "Seat already occupied or on hold"]]
    ELSE [holds |-> Put(h, key, [holdId |-> MakeHoldId(t, uuid),
                                 rutaId |-> rutaId, fecha |-> fecha,
                                 asiento |-> asiento, userId |-> userId,
                                 createdAt |-> t,
                                 expiresAt |-> t + SEAT_HOLD_TTL_MS + 1]),
          reserved |-> r,
          result |-> [ok |-> TRUE, holdId |-> MakeHoldId(t, uuid),
                      expiresAt |-> t + SEAT_HOLD_TTL_MS,
                      remainingMs |-> SEAT_HOLD_TTL_MS]]

(* createHold that looks only at the holds map *)
createHold_noReservedCheck(h, r, rutaId, fecha, asiento, userId, t, uuid) ==
    LET key == makeKey(rutaId, fecha, asiento) IN
    IF key \in DOMAIN h
    THEN [holds |-> h, reserved |-> r,
          result |-> [ok |-> FALSE, error |-> "Seat already occupied or on hold"]]
    ELSE [holds |-> Put(h, key, [holdId |-> MakeHoldId(t, uuid),
                                 rutaId |-> rutaId, fecha |-> fecha,
                                 asiento |-> asiento, userId |-> userId,
                                 createdAt |-> t,
                                 expiresAt |-> t + SEAT_HOLD_TTL_MS]),
          reserved |-> r,
          result |-> [ok |-> TRUE, holdId |-> MakeHoldId(t, uuid),
                      expiresAt |-> t + SEAT_HOLD_TTL_MS,
                      remainingMs |-> SEAT_HOLD_TTL_MS]]

(* createHold that looks only at the reserved map *)
createHold_noHoldCheck(h, r, rutaId, fecha, asiento, userId, t, uuid) ==
    LET key == makeKey(rutaId, fecha, asiento) IN
    IF key \in DOMAIN r
    THEN [holds |-> h, reserved |-> r,
          result |-> [ok |-> FALSE, error |-> "Seat already occupied or on hold"]]
    ELSE [holds |-> Put(h, key, [holdId |-> MakeHoldId(t, uuid),
                                 rutaId |-> rutaId, fecha |-> fecha,
                                 asiento |-> asiento, userId |-> userId,
                                 createdAt |-> t,
                                 expiresAt |-> t + SEAT_HOLD_TTL_MS]),
          reserved |-> r,
          result |-> [ok |-> TRUE, holdId |-> MakeHoldId(t, uuid),
                      expiresAt |-> t + SEAT_HOLD_TTL_MS,
                      remainingMs |-> SEAT_HOLD_TTL_MS]]

(* createHold that lets the holder take its own seat again *)
createHold_sameUserRefresh(h, r, rutaId, fecha, asiento, userId, t, uuid) ==
    LET key == makeKey(rutaId, fecha, asiento) IN
    IF (key \in DOMAIN h /\ h[key].userId # userId) \/ key \in DOMAIN r
    THEN [holds |-> h, reserved |-> r,
          result |-> [ok |-> FALSE, error |-> "Seat already occupied or on hold"]]
    ELSE [holds |-> Put(h, key, [holdId |-> MakeHoldId(t, uuid),
                                 rutaId |-> rutaId, fecha |-> fecha,
                                 asiento |-> asiento, userId |-> userId,
                                 createdAt |-> t,
                                 expiresAt |-> t + SEAT_HOLD_TTL_MS]),
          reserved |-> r,
          result |-> [ok |-> TRUE, holdId |-> MakeHoldId(t, uuid),
                      expiresAt |-> t + SEAT_HOLD_TTL_MS,
                      remainingMs |-> SEAT_HOLD_TTL_MS]]

createHold(h, r, rutaId, fecha, asiento, userId, t, uuid) ==
    LET key == makeKey(rutaId, fecha, asiento) IN
    IF key \in DOMAIN h \/ key \in DOMAIN r
    THEN [holds |-> h, reserved |-> r,
          result |-> [ok |-> FALSE, error |-> "Seat already occupied or on hold"]]
    ELSE [holds |-> Put(h, key, [holdId |-> MakeHoldId(t, uuid),
                                 rutaId |-> rutaId, fecha |-> fecha,
                                 asiento |-> asiento, userId |-> userId,
                                 createdAt |-> t,
                                 expiresAt |-> t + SEAT_HOLD_TTL_MS]),
          reserved |-> r,
          result |-> [ok |-> TRUE, holdId |-> MakeHoldId(t, uuid),
                      expiresAt |-> t + SEAT_HOLD_TTL_MS,
                      remainingMs |-> SEAT_HOLD_TTL_MS]]

(* getHolds without the remainingMs > 0 test *)
getHolds_noFilter(h, t) ==
    {[holdId |-> h[k].holdId, rutaId |-> h[k].rutaId, fecha |-> h[k].fecha,
      asiento |-> h[k].asiento, userId |-> h[k].userId,
      expiresAt |-> h[k].expiresAt, remainingMs |-> h[k].expiresAt - t] :
        k \in DOMAIN h}

(* The entries getHolds pushes, as a set (the order is the map's) *)
getHolds(h, t) ==
    {[holdId |-> h[k].holdId, rutaId |-> h[k].rutaId, fecha |-> h[k].fecha,
      asiento |-> h[k].asiento, userId |-> h[k].userId,
      expiresAt |-> h[k].expiresAt, remainingMs |-> h[k].expiresAt - t] :
        k \in {x \in DOMAIN h : h[x].expiresAt - t > 0}}

(* releaseHold that releases every hold of the claimant of the seat *)
releaseHold_dropsClaimantHolds(h, r, rutaId, fecha, asiento) ==
    LET key == makeKey(rutaId, fecha, asiento) IN
    IF key \notin DOMAIN h
    THEN [holds |-> h, reserved |-> r,
          result |-> [ok |-> FALSE, error |-> "Hold not found"]]
    ELSE [holds |-> Restrict(h, {k \in DOMAIN h : h[k].userId # h[key].userId}),
          reserved |-> r,
          result |-> [ok |-> TRUE]]

(* releaseHold that clears every hold of the route and date of the seat *)
releaseHold_clearsRoute(h, r, rutaId, fecha, asiento) ==
    LET key == makeKey(rutaId, fecha, asiento) IN
    IF key \notin DOMAIN h
    THEN [holds |-> h, reserved |-> r,
          result |-> [ok |-> FALSE, error |-> "Hold not found"]]
    ELSE [holds |-> Restrict(h, {k \in DOMAIN h :
                        h[k].rutaId # rutaId \/ h[k].fecha # fecha}),
          reserved |-> r,
          result |-> [ok |-> TRUE]]

(* releaseHold without the holds.has(key) test: Map.delete never fails *)
releaseHold_alwaysOk(h, r, rutaId, fecha, asiento) ==
    LET key == makeKey(rutaId, fecha, asiento) IN
    [holds |-> Restrict(h, (DOMAIN h) \ {key}), reserved |-> r,
     result |-> [ok |-> TRUE]]

(* releaseHold that also cancels a reservation of the key *)
releaseHold_cancelsReservation(h, r, rutaId, fecha, asiento) ==
    LET key == makeKey(rutaId, fecha, asiento) IN
    IF key \notin DOMAIN h /\ key \notin DOMAIN r
    THEN [holds |-> h, reserved |-> r,
          result |-> [ok |-> FALSE, error |-> "Hold not found"]]
    ELSE [holds |-> Restrict(h, (DOMAIN h) \ {key}),
          reserved |-> Restrict(r, (DOMAIN r) \ {key}),
          result |-> [ok |-> TRUE]]

releaseHold(h, r, rutaId, fecha, asiento) ==
    LET key == makeKey(rutaId, fecha, asiento) IN
    IF key \notin DOMAIN h
    THEN [holds |-> h, reserved |-> r,
          result |-> [ok |-> FALSE, error |-> "Hold not found"]]
    ELSE [holds |-> Restrict(h, (DOMAIN h) \ {key}), reserved |-> r,
          result |-> [ok |-> TRUE]]

(* confirmReservation that also drops the other holds of the claimant *)
confirmReservation_clearsUserHolds(h, r, rutaId, fecha, asiento, holdId, t) ==
    LET key == makeKey(rutaId, fecha, asiento) IN
    IF key \notin DOMAIN h
    THEN [holds |-> h, reserved |-> r,
          result |-> [ok |-> FALSE, error |-> "Hold not found"]]
    ELSE IF h[key].holdId # holdId
    THEN [holds |-> h, reserved |-> r,
          result |-> [ok |-> FALSE, error |-> "Invalid hold ID"]]
    ELSE [holds |-> Restrict(h, {k \in DOMAIN h : h[k].userId # h[key].userId}),
          reserved |-> Put(r, key, [holdId |-> holdId, rutaId |-> rutaId,
                                    fecha |-> fecha, asiento |-> asiento,
                                    userId |-> h[key].userId,
                                    reservedAt |-> t]),
          result |-> [ok |-> TRUE, reservedAt |-> t]]

(* confirmReservation that discards the stored hold when the ids differ *)
confirmReservation_dropsOnMismatch(h, r, rutaId, fecha, asiento, holdId, t) ==
    LET key == makeKey(rutaId, fecha, asiento) IN
    IF key \notin DOMAIN h
    THEN [holds |-> h, reserved |-> r,
          result |-> [ok |-> FALSE, error |-> "Hold not found"]]
    ELSE IF h[key].holdId # holdId
    THEN [holds |-> Restrict(h, (DOMAIN h) \ {key}), reserved |-> r,
          result |-> [ok |-> FALSE, error |-> "Invalid hold ID"]]
    ELSE [holds |-> Restrict(h, (DOMAIN h) \ {key}),
          reserved |-> Put(r, key, [holdId |-> holdId, rutaId |-> rutaId,
                                    fecha |-> fecha, asiento |-> asiento,
                                    userId |-> h[key].userId,
                                    reservedAt |-> t]),
          result |-> [ok |-> TRUE, reservedAt |-> t]]

(* confirmReservation without the comparison of holdIds *)
confirmReservation_anyHoldId(h, r, rutaId, fecha, asiento, holdId, t) ==
    LET key == makeKey(rutaId, fecha, asiento) IN
    IF key \notin DOMAIN h
    THEN [holds |-> h, reserved |-> r,
          result |-> [ok |-> FALSE, error |-> "Hold not found"]]
    ELSE [holds |-> Restrict(h, (DOMAIN h) \ {key}),
          reserved |-> Put(r, key, [holdId |-> holdId, rutaId |-> rutaId,
                                    fecha |-> fecha, asiento |-> asiento,
                                    userId |-> h[key].userId,
                                    reservedAt |-> t]),
          result |-> [ok |-> TRUE, reservedAt |-> t]]

(* confirmReservation that stores the reservation without the claimant *)
confirmReservation_dropClaimant(h, r, rutaId, fecha, asiento, holdId, t) ==
    LET key == makeKey(rutaId, fecha, asiento) IN
    IF key \notin DOMAIN h
    THEN [holds |-> h, reserved |-> r,
          result |-> [ok |-> FALSE, error |-> "Hold not found"]]
    ELSE IF h[key].holdId # holdId
    THEN [holds |-> h, reserved |-> r,
          result |-> [ok |-> FALSE, error |-> "Invalid hold ID"]]
    ELSE [holds |-> Restrict(h, (DOMAIN h) \ {key}),
          reserved |-> Put(r, key, [holdId |-> holdId, rutaId |-> rutaId,
                                    fecha |-> fecha, asiento |-> asiento,
                                    userId |-> "",
                                    reservedAt |-> t]),
          result |-> [ok |-> TRUE, reservedAt |-> t]]

(* confirmReservation without its holds.delete(key) *)
confirmReservation_keepHold(h, r, rutaId, fecha, asiento, holdId, t) ==
    LET key == makeKey(rutaId, fecha, asiento) IN
    IF key \notin DOMAIN h
    THEN [holds |-> h, reserved |-> r,
          result |-> [ok |-> FALSE, error |-> "Hold not found"]]
    ELSE IF h[key].holdId # holdId
    THEN [holds |-> h, reserved |-> r,
          result |-> [ok |-> FALSE, error |-> "Invalid hold ID"]]
    ELSE [holds |-> h,
          reserved |-> Put(r, key, [holdId |-> holdId, rutaId |-> rutaId,
                                    fecha |-> fecha, asiento |-> asiento,
                                    userId |-> h[key].userId,
                                    reservedAt |-> t]),
          result |-> [ok |-> TRUE, reservedAt |-> t]]

confirmReservation(h, r, rutaId, fecha, asiento, holdId, t) ==
    LET key == makeKey(rutaId, fecha, asiento) IN
    IF key \notin DOMAIN h
    THEN [holds |-> h, reserved |-> r,
          result |-> [ok |-> FALSE, error |-> "Hold not found"]]
    ELSE IF h[key].holdId # holdId
    THEN [holds |-> h, reserved |-> r,
          result |-> [ok |-> FALSE, error |-> "Invalid hold ID"]]
    ELSE [holds |-> Restrict(h, (DOMAIN h) \ {key}),
          reserved |-> Put(r, key, [holdId |-> holdId, rutaId |-> rutaId,
                                    fecha |-> fecha, asiento |-> asiento,
                                    userId |-> h[key].userId,
                                    reservedAt |-> t]),
          result |-> [ok |-> TRUE, reservedAt |-> t]]

----------------------------------------------------------------------------
(* Price calculation.  Amounts are whole currency units; a discount rate   *)
(* is kept in hundredths (0.05 is 5), and Math.round(x) of x = num / den   *)
(* is floor(x + 1/2).                                                      *)

BASE_PRICE == 50000

DiscountRate(quantity) ==
    IF quantity >= 4 THEN 10
    ELSE IF quantity >= 3 THEN 7
    ELSE IF quantity >= 2 THEN 5
    ELSE 0

MathRound(num, den) == (2 * num + den) \div (2 * den)

Priced(quantity) ==
    LET baseTotal == BASE_PRICE * quantity
        discountTimes100 == baseTotal * DiscountRate(quantity)
    IN [rejected |-> FALSE,
        quantity |-> quantity,
        basePrice |-> BASE_PRICE,
        baseTotal |-> baseTotal,
        discountPercent |-> DiscountRate(quantity),
        discountAmount |-> MathRound(discountTimes100, 100),
        total |-> MathRound(100 * baseTotal - discountTimes100, 100)]

Rejected == [rejected |-> TRUE]

(* calculatePrice of services/asientos.service.js *)
calculatePrice(quantity) == Priced(quantity)

(* calculatePrice of FUNCIONES_DESCUENTOS.js: throws below 1 *)
calculatePrice_descuentos(quantity) ==
    IF quantity < 1 THEN Rejected ELSE Priced(quantity)

(* calculatePrice of components/SeatPicker.tsx *)
calculatePrice_seatPicker(quantity) == Priced(quantity)

(* POST /calcular-precio: 400 when cantidad is 0 or below 1 *)
calcularPrecio(cantidad) ==
    IF cantidad = 0 \/ cantidad < 1 THEN Rejected ELSE calculatePrice(cantidad)

----------------------------------------------------------------------------
(* controllers/asientos.controller.js: one action per handler.  `last` is  *)
(* the request most recently answered and its response, `nreq` the number  *)
(* of requests answered so far, `issued` the holdIds answered so far by    *)
(* POST /reservar.  `twin` is a second process given the same requests at  *)
(* the same clock readings, whose interval timer never fires; it moves     *)
(* only in SpecTwin.                                                       *)

EmptyMap == [k \in {} |-> 0]

NoHoldId == <<>>

(* A later Date.now() of the same handler run: the clock may have moved on *)
(* by one reading since the handler's purge read it.                       *)
LaterNow == {t \in now..(now + 1) : t <= MaxTime}

Respond(op, req, status, body) ==
    /\ last' = [op |-> op, req |-> req, status |-> status, body |-> body]
    /\ nreq' = nreq + 1

(* GET /api/asientos/disponibles *)
GetAvailableSeatsHandler(req) ==
    LET p == purgeExpiredHolds(holds, now) IN
    /\ nreq < MaxReq
    /\ holds' = p.holds
    /\ IF req.rutaId = <<>> \/ req.fecha = <<>>
       THEN Respond("getAvailableSeats", req, 400,
                    [ok |-> FALSE,
                     error |-> "rutaId and fecha query parameters are required"])
       ELSE LET available == getAvailableSeats(p.holds, reserved, req.rutaId, req.fecha)
            IN Respond("getAvailableSeats", req, 200,
                       [ok |-> TRUE, rutaId |-> req.rutaId, fecha |-> req.fecha,
                        available |-> available, total |-> Len(available)])
    /\ UNCHANGED <<reserved, now, nextUuid, issued, twin, ui>>

(* POST /api/asientos/reservar *)
CreateHoldHandler(req) ==
    LET p == purgeExpiredHolds(holds, now) IN
    /\ nreq < MaxReq
    /\ IF \/ req.rutaId = <<>> \/ req.fecha = <<>>
          \/ req.asiento = Undefined \/ req.userId = ""
       THEN /\ Respond("createHold", req, 400,
                       [ok |-> FALSE,
                        error |-> "rutaId, fecha, asiento, and userId are required"])
            /\ holds' = p.holds
            /\ UNCHANGED <<reserved, nextUuid, now, issued, twin, ui>>
       ELSE IF \/ ToNumber(req.asiento) = NaN
               \/ ToNumber(req.asiento) < 1
               \/ ToNumber(req.asiento) > TotalSeats
       THEN /\ Respond("createHold", req, 400,
                       [ok |-> FALSE,
                        error |-> "asiento must be a number between 1 and 40"])
            /\ holds' = p.holds
            /\ UNCHANGED <<reserved, nextUuid, now, issued, twin, ui>>
       ELSE \E t \in LaterNow :
            LET r == createHold(p.holds, reserved, req.rutaId, req.fecha,
                                req.asiento, req.userId, t, nextUuid)
            IN /\ Respond("createHold", req,
                          IF r.result.ok THEN 201 ELSE 409, r.result)
               /\ holds' = r.holds
               /\ reserved' = r.reserved
               /\ nextUuid' = IF r.result.ok THEN nextUuid + 1 ELSE nextUuid
               /\ now' = IF r.result.ok THEN t ELSE now
               /\ issued' = IF r.result.ok THEN issued \cup {r.result.holdId}
                             ELSE issued
               /\ UNCHANGED <<twin, ui>>

(* A listing that renews the holds it lists *)
GetHoldsHandler_renewsListed ==
    \E t \in LaterNow :
    LET p == purgeExpiredHolds(holds, now)
        listed == getHolds(p.holds, t)
    IN /\ nreq < MaxReq
       /\ holds' = [k \in DOMAIN p.holds |->
                       IF p.holds[k].expiresAt - t > 0
                       THEN [p.holds[k] EXCEPT !.expiresAt = t + SEAT_HOLD_TTL_MS]
                       ELSE p.holds[k]]
       /\ Respond("getHolds", [none |-> TRUE], 200,
                  [ok |-> TRUE, holds |-> listed, count |-> Cardinality(listed)])
       /\ now' = t
       /\ UNCHANGED <<reserved, nextUuid, issued, twin, ui>>

(* GET /api/asientos/holds *)
GetHoldsHandler ==
    \E t \in LaterNow :
    LET p == purgeExpiredHolds(holds, now)
        listed == getHolds(p.holds, t)
    IN /\ nreq < MaxReq
       /\ holds' = p.holds
       /\ Respond("getHolds", [none |-> TRUE], 200,
                  [ok |-> TRUE, holds |-> listed, count |-> Cardinality(listed)])
       /\ now' = t
       /\ UNCHANGED <<reserved, nextUuid, issued, twin, ui>>

(* The release handler validating the body before it sweeps *)
ReleaseHoldHandler_validatesFirst(req) ==
    /\ nreq < MaxReq
    /\ IF req.rutaId = <<>> \/ req.fecha = <<>> \/ req.asiento = Undefined
       THEN /\ Respond("releaseHold", req, 400,
                       [ok |-> FALSE,
                        error |-> "rutaId, fecha, and asiento are required"])
            /\ UNCHANGED <<holds, reserved>>
       ELSE LET p == purgeExpiredHolds(holds, now)
                r == releaseHold(p.holds, reserved, req.rutaId, req.fecha,
                                 req.asiento)
            IN /\ Respond("releaseHold", req,
                          IF r.result.ok THEN 200 ELSE 409, r.result)
               /\ holds' = r.holds
               /\ reserved' = r.reserved
    /\ UNCHANGED <<now, nextUuid, issued, twin, ui>>

(* DELETE /api/asientos/holds *)
ReleaseHoldHandler(req) ==
    LET p == purgeExpiredHolds(holds, now) IN
    /\ nreq < MaxReq
    /\ IF req.rutaId = <<>> \/ req.fecha = <<>> \/ req.asiento = Undefined
       THEN /\ Respond("releaseHold", req, 400,
                       [ok |-> FALSE,
                        error |-> "rutaId, fecha, and asiento are required"])
            /\ holds' = p.holds
            /\ UNCHANGED reserved
       ELSE LET r == releaseHold(p.holds, reserved, req.rutaId, req.fecha,
                                 req.asiento)
            IN /\ Respond("releaseHold", req,
                          IF r.result.ok THEN 200 ELSE 409, r.result)
               /\ holds' = r.holds
               /\ reserved' = r.reserved
    /\ UNCHANGED <<now, nextUuid, issued, twin, ui>>

(* POST /api/asientos/reservar-definitivo *)
ConfirmReservationHandler(req) ==
    LET p == purgeExpiredHolds(holds, now) IN
    /\ nreq < MaxReq
    /\ IF \/ req.rutaId = <<>> \/ req.fecha = <<>>
          \/ req.asiento = Undefined \/ req.holdId = NoHoldId
       THEN /\ Respond("confirmReservation", req, 400,
                       [ok |-> FALSE,
                        error |-> "rutaId, fecha, asiento, and holdId are required"])
            /\ holds' = p.holds
            /\ UNCHANGED <<reserved, now>>
       ELSE \E t \in LaterNow :
            LET r == confirmReservation(p.holds, reserved, req.rutaId,
                                        req.fecha, req.asiento, req.holdId, t)
            IN /\ Respond("confirmReservation", req,
                          IF r.result.ok THEN 200 ELSE 409, r.result)
               /\ holds' = r.holds
               /\ reserved' = r.reserved
               /\ now' = IF r.result.ok THEN t ELSE now
    /\ UNCHANGED <<nextUuid, issued, twin, ui>>

(* A timer whose callback leaves the store alone *)
TimerPurge_idle == UNCHANGED vars

(* The setInterval callback of the server entry point *)
TimerPurge ==
    /\ holds' = purgeExpiredHolds(holds, now).holds
    /\ UNCHANGED <<reserved, now, nextUuid, nreq, last, issued, twin, ui>>

(* The same callback with its return value kept: `const purged = ...` is   *)
(* what the callback logs.                                                 *)
TimerPurgeLogged ==
    LET p == purgeExpiredHolds(holds, now) IN
    /\ holds' = p.holds
    /\ last' = [op |-> "purge", req |-> [at |-> now], status |-> 0,
                body |-> [purged |-> p.purged]]
    /\ UNCHANGED <<reserved, now, nextUuid, nreq, issued, twin, ui>>

(* A price computed by one of the versions; `last` keeps the call and what *)
(* it returned.                                                            *)
PriceService(quantity) ==
    /\ last' = [op |-> "calculatePrice",
                req |-> [version |-> "service", quantity |-> quantity],
                status |-> 0, body |-> calculatePrice(quantity)]
    /\ UNCHANGED <<holds, reserved, now, nextUuid, nreq, issued, twin, ui>>

PriceDescuentos(quantity) ==
    /\ last' = [op |-> "calculatePrice",
                req |-> [version |-> "descuentos", quantity |-> quantity],
                status |-> 0, body |-> calculatePrice_descuentos(quantity)]
    /\ UNCHANGED <<holds, reserved, now, nextUuid, nreq, issued, twin, ui>>

PriceSeatPicker(quantity) ==
    /\ last' = [op |-> "calculatePrice",
                req |-> [version |-> "seatPicker", quantity |-> quantity],
                status |-> 0, body |-> calculatePrice_seatPicker(quantity)]
    /\ UNCHANGED <<holds, reserved, now, nextUuid, nreq, issued, twin, ui>>

PriceRoute(cantidad) ==
    /\ last' = [op |-> "calculatePrice",
                req |-> [version |-> "route", quantity |-> cantidad],
                status |-> 0, body |-> calcularPrecio(cantidad)]
    /\ UNCHANGED <<holds, reserved, now, nextUuid, nreq, issued, twin, ui>>

(* Date.now() moves on *)
Tick ==
    /\ now < MaxTime
    /\ now' = now + 1
    /\ UNCHANGED <<holds, reserved, nextUuid, nreq, last, issued, twin, ui>>

----------------------------------------------------------------------------
(* The five controllers as functions of the store they run on: t0 is the   *)
(* Date.now() of the controller's purge, t the later one of the service    *)
(* call.  Each gives the store it leaves and the response it sends.        *)

Outcome(h, r, status, body) ==
    [holds |-> h, reserved |-> r, status |-> status, body |-> body]

QueryOn(h, r, req, t0) ==
    LET p == purgeExpiredHolds(h, t0) IN
    IF req.rutaId = <<>> \/ req.fecha = <<>>
    THEN Outcome(p.holds, r, 400,
                 [ok |-> FALSE,
                  error |-> "rutaId and fecha query parameters are required"])
    ELSE LET available == getAvailableSeats(p.holds, r, req.rutaId, req.fecha)
         IN Outcome(p.holds, r, 200,
                    [ok |-> TRUE, rutaId |-> req.rutaId, fecha |-> req.fecha,
                     available |-> available, total |-> Len(available)])

CreateOn(h, r, req, t0, t, uuid) ==
    LET p == purgeExpiredHolds(h, t0) IN
    IF \/ req.rutaId = <<>> \/ req.fecha = <<>>
       \/ req.asiento = Undefined \/ req.userId = ""
    THEN Outcome(p.holds, r, 400,
                 [ok |-> FALSE,
                  error |-> "rutaId, fecha, asiento, and userId are required"])
    ELSE IF \/ ToNumber(req.asiento) = NaN
            \/ ToNumber(req.asiento) < 1
            \/ ToNumber(req.asiento) > TotalSeats
    THEN Outcome(p.holds, r, 400,
                 [ok |-> FALSE,
                  error |-> "asiento must be a number between 1 and 40"])
    ELSE LET c == createHold(p.holds, r, req.rutaId, req.fecha, req.asiento,
                             req.userId, t, uuid)
         IN Outcome(c.holds, c.reserved, IF c.result.ok THEN 201 ELSE 409,
                    c.result)

HoldsOn(h, r, t0, t) ==
    LET p == purgeExpiredHolds(h, t0)
        listed == getHolds(p.holds, t)
    IN Outcome(p.holds, r, 200,
               [ok |-> TRUE, holds |-> listed, count |-> Cardinality(listed)])

ReleaseOn(h, r, req, t0) ==
    LET p == purgeExpiredHolds(h, t0) IN
    IF req.rutaId = <<>> \/ req.fecha = <<>> \/ req.asiento = Undefined
    THEN Outcome(p.holds, r, 400,
                 [ok |-> FALSE,
                  error |-> "rutaId, fecha, and asiento are required"])
    ELSE LET c == releaseHold(p.holds, r, req.rutaId, req.fecha, req.asiento)
         IN Outcome(c.holds, c.reserved, IF c.result.ok THEN 200 ELSE 409,
                    c.result)

ConfirmOn(h, r, req, t0, t) ==
    LET p == purgeExpiredHolds(h, t0) IN
    IF \/ req.rutaId = <<>> \/ req.fecha = <<>>
       \/ req.asiento = Undefined \/ req.holdId = NoHoldId
    THEN Outcome(p.holds, r, 400,
                 [ok |-> FALSE,
                  error |-> "rutaId, fecha, asiento, and holdId are required"])
    ELSE LET c == confirmReservation(p.holds, r, req.rutaId, req.fecha,
                                     req.asiento, req.holdId, t)
         IN Outcome(c.holds, c.reserved, IF c.result.ok THEN 200 ELSE 409,
                    c.result)

(* One request answered by both processes: m is the outcome in the process *)
(* whose timer fires, s the outcome in the twin.  The clock moves to the   *)
(* later reading when a service call read it.                              *)
Both(op, req, m, s, t, readsClock) ==
    /\ nreq < MaxReq
    /\ holds' = m.holds
    /\ reserved' = m.reserved
    /\ Respond(op, req, m.status, m.body)
    /\ twin' = [twin EXCEPT !.holds = s.holds, !.reserved = s.reserved,
                            !.last = [op |-> op, req |-> req,
                                      status |-> s.status, body |-> s.body]]
    /\ now' = IF readsClock THEN t ELSE now
    /\ nextUuid' = IF m.status = 201 \/ s.status = 201 THEN nextUuid + 1
                   ELSE nextUuid
    /\ issued' = IF m.status = 201 THEN issued \cup {m.body.holdId} ELSE issued
    /\ UNCHANGED ui

TwinQuery(req) ==
    Both("getAvailableSeats", req, QueryOn(holds, reserved, req, now),
         QueryOn(twin.holds, twin.reserved, req, now), now, FALSE)

TwinCreate(req) ==
    \E t \in LaterNow :
        LET m == CreateOn(holds, reserved, req, now, t, nextUuid)
            s == CreateOn(twin.holds, twin.reserved, req, now, t, nextUuid)
        IN Both("createHold", req, m, s, t, m.status = 201 \/ s.status = 201)

TwinGetHolds ==
    \E t \in LaterNow :
        Both("getHolds", [none |-> TRUE], HoldsOn(holds, reserved, now, t),
             HoldsOn(twin.holds, twin.reserved, now, t), t, TRUE)

TwinRelease(req) ==
    Both("releaseHold", req, ReleaseOn(holds, reserved, req, now),
         ReleaseOn(twin.holds, twin.reserved, req, now), now, FALSE)

TwinConfirm(req) ==
    \E t \in LaterNow :
        LET m == ConfirmOn(holds, reserved, req, now, t)
            s == ConfirmOn(twin.holds, twin.reserved, req, now, t)
        IN Both("confirmReservation", req, m, s, t,
                m.status = 200 \/ s.status = 200)

(* The timer sweeping at the expiry itself, one reading before the         *)
(* handlers' sweep does                                                    *)
TwinTimer_sweepsAtExpiry ==
    /\ holds' = Restrict(holds, {k \in DOMAIN holds : holds[k].expiresAt > now})
    /\ twin' = [twin EXCEPT !.timerSwept = @ \/ holds' # holds]
    /\ UNCHANGED <<reserved, now, nextUuid, nreq, last, issued, ui>>

(* The setInterval callback: it fires in the first process only *)
TwinTimer ==
    /\ holds' = purgeExpiredHolds(holds, now).holds
    /\ twin' = [twin EXCEPT !.timerSwept = @ \/ holds' # holds]
    /\ UNCHANGED <<reserved, now, nextUuid, nreq, last, issued, ui>>

----------------------------------------------------------------------------
(* Requests the clients send *)

RutaIds == {<<"R">>}
Fechas == {<<"D">>}
Asientos == {Num(1), Num(2)}
UserIds == {"u1", "u2"}

(* holdIds a client can present: one never issued, or any issued so far *)
WrongHoldId == MakeHoldId(0, 0)

KnownHoldIds ==
    {WrongHoldId} \cup {MakeHoldId(t, u) : t \in 0..now, u \in 1..(nextUuid - 1)}

QueryReqs == [rutaId : RutaIds, fecha : Fechas] \cup
             {[rutaId |-> <<>>, fecha |-> <<"D">>]}

CreateReqs == [rutaId : RutaIds, fecha : Fechas, asiento : Asientos,
               userId : UserIds] \cup
              {[rutaId |-> <<"R">>, fecha |-> <<"D">>, asiento |-> Undefined,
                userId |-> "u1"],
               [rutaId |-> <<"R">>, fecha |-> <<"D">>, asiento |-> Num(41),
                userId |-> "u1"]}

ReleaseReqs == [rutaId : RutaIds, fecha : Fechas, asiento : Asientos] \cup
               {[rutaId |-> <<"R">>, fecha |-> <<>>, asiento |-> Num(1)]}

ConfirmReqs == [rutaId : RutaIds, fecha : Fechas, asiento : Asientos,
                holdId : KnownHoldIds] \cup
               {[rutaId |-> <<"R">>, fecha |-> <<"D">>, asiento |-> Num(1),
                 holdId |-> NoHoldId]}

Init ==
    /\ holds = EmptyMap
    /\ reserved = EmptyMap
    /\ now = 0
    /\ nextUuid = 1
    /\ nreq = 0
    /\ issued = {}
    /\ last = [op |-> "none", req |-> [none |-> TRUE], status |-> 0,
               body |-> [ok |-> FALSE]]
    /\ twin = [holds |-> EmptyMap, reserved |-> EmptyMap,
               last |-> [op |-> "none", req |-> [none |-> TRUE], status |-> 0,
                         body |-> [ok |-> FALSE]],
               timerSwept |-> FALSE]
    /\ ui = [data |-> [set |-> FALSE, body |-> [ok |-> FALSE]],
             selected |-> <<>>, msg |-> "", pc |-> "idle",
             batch |-> <<>>, queue |-> <<>>, holdIds |-> <<>>]

Next ==
    \/ \E req \in QueryReqs : GetAvailableSeatsHandler(req)
    \/ \E req \in CreateReqs : CreateHoldHandler(req)
    \/ GetHoldsHandler
    \/ \E req \in ReleaseReqs : ReleaseHoldHandler(req)
    \/ \E req \in ConfirmReqs : ConfirmReservationHandler(req)
    \/ TimerPurge
    \/ Tick

Spec == Init /\ [][Next]_vars

(* The store under creations, releases and the logged timer callback *)
NextPurge ==
    \/ \E req \in CreateReqs : CreateHoldHandler(req)
    \/ \E req \in ReleaseReqs : ReleaseHoldHandler(req)
    \/ TimerPurgeLogged
    \/ Tick

SpecPurge == Init /\ [][NextPurge]_vars

(* Requests whose rutaId and fecha contain the separator of makeKey *)
SepRutaIds == {<<"A">>, <<"A", "|", "B">>}
SepFechas == {<<"C">>, <<"B", "|", "C">>}

SepQueryReqs == [rutaId : SepRutaIds, fecha : SepFechas]

SepCreateReqs == [rutaId : SepRutaIds, fecha : SepFechas, asiento : {Num(1)},
                  userId : {"u1"}]

SepReleaseReqs == [rutaId : SepRutaIds, fecha : SepFechas, asiento : {Num(1)}]

SepConfirmReqs == [rutaId : SepRutaIds, fecha : SepFechas, asiento : {Num(1)},
                   holdId : KnownHoldIds]

NextKeys ==
    \/ \E req \in SepQueryReqs : GetAvailableSeatsHandler(req)
    \/ \E req \in SepCreateReqs : CreateHoldHandler(req)
    \/ \E req \in SepReleaseReqs : ReleaseHoldHandler(req)
    \/ \E req \in SepConfirmReqs : ConfirmReservationHandler(req)

SpecKeys == Init /\ [][NextKeys]_vars

(* The process and its twin without timer, given the same requests *)
NextTwin ==
    \/ \E req \in QueryReqs : TwinQuery(req)
    \/ \E req \in {c \in CreateReqs : c.userId = "u1"} : TwinCreate(req)
    \/ TwinGetHolds
    \/ \E req \in ReleaseReqs : TwinRelease(req)
    \/ \E req \in ConfirmReqs : TwinConfirm(req)
    \/ TwinTimer
    \/ Tick

SpecTwin == Init /\ [][NextTwin]_vars

(* The store while time advances and the interval timer keeps firing: the *)
(* event loop runs a due setInterval callback once the running handler     *)
(* has returned, so the timer's sweep cannot stay enabled for ever without *)
(* running; requests may stop at any point.                                *)
NextLive ==
    \/ \E req \in {c \in CreateReqs : c.userId = "u1"} : CreateHoldHandler(req)
    \/ \E req \in ReleaseReqs : ReleaseHoldHandler(req)
    \/ \E req \in ConfirmReqs : ConfirmReservationHandler(req)
    \/ TimerPurge
    \/ Tick

SpecLive == Init /\ [][NextLive]_vars /\ WF_vars(Tick) /\ WF_vars(TimerPurge)

(* Requests whose seat is a number in or out of range, true, or absent *)
SeatValues == {Num(1), Num(41), JsTrue, Undefined}

SeatCreateReqs == [rutaId : RutaIds, fecha : Fechas, asiento : SeatValues,
                   userId : {"u1"}]

SeatReleaseReqs == [rutaId : RutaIds, fecha : Fechas, asiento : SeatValues]

SeatConfirmReqs == [rutaId : RutaIds, fecha : Fechas, asiento : SeatValues,
                    holdId : KnownHoldIds]

NextSeats ==
    \/ \E req \in SeatCreateReqs : CreateHoldHandler(req)
    \/ \E req \in SeatReleaseReqs : ReleaseHoldHandler(req)
    \/ \E req \in SeatConfirmReqs : ConfirmReservationHandler(req)
    \/ Tick

SpecSeats == Init /\ [][NextSeats]_vars

(* Requests for one seat submitted as a number and as strings *)
SeatForms == {Num(5), Str(<<"5">>), Str(<<"0", "5">>)}

FormCreateReqs == [rutaId : RutaIds, fecha : Fechas, asiento : SeatForms,
                   userId : UserIds]

FormReleaseReqs == [rutaId : RutaIds, fecha : Fechas, asiento : SeatForms]

NextForms ==
    \/ \E req \in QueryReqs : GetAvailableSeatsHandler(req)
    \/ \E req \in FormCreateReqs : CreateHoldHandler(req)
    \/ \E req \in FormReleaseReqs : ReleaseHoldHandler(req)
    \/ Tick

SpecForms == Init /\ [][NextForms]_vars

----------------------------------------------------------------------------
(* components/SeatPicker.tsx: the seat picker, a client of the API.  `ui`  *)
(* holds its React state (data, selected, msg) and the position of the      *)
(* running hold(): batch is the selection hold() iterates, queue the seats  *)
(* still to request, holdIds the holds it collected.  A Set iterates in     *)
(* insertion order, so the selection is a sequence without repetition.      *)

PickerRutaId == <<"R">>
PickerFecha == <<"D">>
PickerUserId == "user-app"
PickerSeats == {1, 2, 3}

Without(seq, n) == SelectSeq(seq, LAMBDA x : x # n)

(* byNum.get(n): the Map keeps the last item given for a number *)
ByNum(seats, n) ==
    LET idx == {i \in 1..Len(seats) : seats[i].numero = n}
    IN IF idx = {} THEN <<>>
       ELSE <<seats[CHOOSE i \in idx : \A j \in idx : j <= i]>>

buildGrid(seats) ==
    LET rows == (Len(seats) + 3) \div 4
    IN [r \in 1..rows |->
          [row |-> r,
           left |-> ByNum(seats, 4 * (r - 1) + 1) \o ByNum(seats, 4 * (r - 1) + 2),
           right |-> ByNum(seats, 4 * (r - 1) + 3) \o ByNum(seats, 4 * (r - 1) + 4)]]

(* data?.asientos ?? [] : the response's `asientos`, when it has one *)
AsientosOf(data) ==
    IF data.set /\ "asientos" \in DOMAIN data.body
    THEN data.body.asientos ELSE <<>>

(* useMemo(() => buildGrid(data?.asientos ?? []), [data]) *)
Grid == buildGrid(AsientosOf(ui.data))

(* The seat buttons rendered: a button is disabled unless its seat's       *)
(* estado is "available"                                                   *)
GridSeats ==
    UNION {{Grid[r].left[i] : i \in 1..Len(Grid[r].left)} \cup
           {Grid[r].right[i] : i \in 1..Len(Grid[r].right)} :
              r \in 1..Len(Grid)}

(* toggleSeat(seatNumber), between two runs of hold(): hold() iterates the *)
(* selection it was called with, so a later toggle changes none of its     *)
(* requests.                                                               *)
ToggleSeat(seatNumber) ==
    /\ ui.pc = "idle"
    /\ ui' = [ui EXCEPT !.selected =
                 IF \E i \in 1..Len(@) : @[i] = seatNumber
                 THEN Without(@, seatNumber) ELSE Append(@, seatNumber)]
    /\ UNCHANGED <<holds, reserved, now, nextUuid, nreq, last, issued, twin>>

(* load(): GET /disponibles, setData(j), then the selection it was called  *)
(* with is filtered by j.asientos and stored.  Called from the button it   *)
(* sees the current selection, called from hold() the selection hold()     *)
(* started with.  j.asientos.find throws when the response has no          *)
(* `asientos` and the selection has a seat; the catch block reports it.    *)
PickerLoad ==
    LET req == [rutaId |-> PickerRutaId, fecha |-> PickerFecha]
        o == QueryOn(holds, reserved, req, now)
        j == o.body
        captured == IF ui.pc = "reload" THEN ui.batch ELSE ui.selected
        kept == SelectSeq(captured, LAMBDA num :
                    \E i \in 1..Len(j.asientos) :
                        /\ j.asientos[i].numero = num
                        /\ \A k \in 1..(i - 1) : j.asientos[k].numero # num
                        /\ j.asientos[i].estado = "available")
        msg0 == IF ui.pc = "reload" THEN ui.msg ELSE ""
        (* hold() has returned: its locals are gone *)
        back == [ui EXCEPT !.pc = "idle", !.batch = <<>>, !.queue = <<>>,
                           !.holdIds = <<>>]
    IN /\ ui.pc \in {"idle", "reload"}
       /\ nreq < MaxReq
       /\ holds' = o.holds
       /\ Respond("getAvailableSeats", req, o.status, o.body)
       /\ ui' = IF ~j.ok
                THEN [back EXCEPT !.msg = "error"]
                ELSE IF captured = <<>>
                THEN [back EXCEPT !.data = [set |-> TRUE, body |-> j],
                                  !.selected = <<>>, !.msg = msg0]
                ELSE IF "asientos" \notin DOMAIN j
                THEN [back EXCEPT !.data = [set |-> TRUE, body |-> j],
                                  !.msg = "error"]
                ELSE [back EXCEPT !.data = [set |-> TRUE, body |-> j],
                                  !.selected = kept, !.msg = msg0]
       /\ UNCHANGED <<reserved, now, nextUuid, issued, twin>>

(* hold() up to its first request: nothing to do without a selection *)
PickerHold ==
    /\ ui.pc = "idle"
    /\ ui.selected # <<>>
    /\ ui' = [ui EXCEPT !.pc = "holding", !.msg = "", !.batch = ui.selected,
                        !.queue = ui.selected, !.holdIds = <<>>]
    /\ UNCHANGED <<holds, reserved, now, nextUuid, nreq, last, issued, twin>>

(* hold() releasing the batch's earlier holds when a request fails *)
PickerReservar_releasesEarlier ==
    \E t \in LaterNow :
    LET asiento == Head(ui.queue)
        req == [rutaId |-> PickerRutaId, fecha |-> PickerFecha,
                asiento |-> Num(asiento), userId |-> PickerUserId]
        o == CreateOn(holds, reserved, req, now, t, nextUuid)
        earlier == {makeKey(PickerRutaId, PickerFecha, Num(ui.batch[i])) :
                       i \in 1..Len(ui.holdIds)}
    IN /\ ui.pc = "holding"
       /\ nreq < MaxReq
       /\ holds' = IF o.body.ok THEN o.holds
                   ELSE Restrict(o.holds, DOMAIN o.holds \ earlier)
       /\ reserved' = o.reserved
       /\ Respond("createHold", req, o.status, o.body)
       /\ nextUuid' = IF o.body.ok THEN nextUuid + 1 ELSE nextUuid
       /\ now' = IF o.body.ok THEN t ELSE now
       /\ issued' = IF o.body.ok THEN issued \cup {o.body.holdId} ELSE issued
       /\ ui' = IF ~o.body.ok
                THEN [ui EXCEPT !.msg = "failed", !.pc = "reload"]
                ELSE IF Len(ui.queue) > 1
                THEN [ui EXCEPT !.holdIds = Append(@, o.body.holdId),
                                !.queue = Tail(@)]
                ELSE [ui EXCEPT !.holdIds = Append(@, o.body.holdId),
                                !.queue = <<>>, !.msg = "held",
                                !.selected = <<>>, !.pc = "reload"]
       /\ UNCHANGED twin

(* One turn of hold()'s loop: POST /reservar for the next seat of the      *)
(* batch.  A refusal ends hold() with the message and a load(); after the  *)
(* last seat the selection is cleared and load() is called.                *)
PickerReservar ==
    \E t \in LaterNow :
    LET asiento == Head(ui.queue)
        req == [rutaId |-> PickerRutaId, fecha |-> PickerFecha,
                asiento |-> Num(asiento), userId |-> PickerUserId]
        o == CreateOn(holds, reserved, req, now, t, nextUuid)
    IN /\ ui.pc = "holding"
       /\ nreq < MaxReq
       /\ holds' = o.holds
       /\ reserved' = o.reserved
       /\ Respond("createHold", req, o.status, o.body)
       /\ nextUuid' = IF o.body.ok THEN nextUuid + 1 ELSE nextUuid
       /\ now' = IF o.body.ok THEN t ELSE now
       /\ issued' = IF o.body.ok THEN issued \cup {o.body.holdId} ELSE issued
       /\ ui' = IF ~o.body.ok
                THEN [ui EXCEPT !.msg = "failed", !.pc = "reload"]
                ELSE IF Len(ui.queue) > 1
                THEN [ui EXCEPT !.holdIds = Append(@, o.body.holdId),
                                !.queue = Tail(@)]
                ELSE [ui EXCEPT !.holdIds = Append(@, o.body.holdId),
                                !.queue = <<>>, !.msg = "held",
                                !.selected = <<>>, !.pc = "reload"]
       /\ UNCHANGED twin

(* The picker beside another client that asks for the seat RivalSeat *)
RivalSeat == 2

PickerRivalReqs ==
    {[rutaId |-> PickerRutaId, fecha |-> PickerFecha,
      asiento |-> Num(RivalSeat), userId |-> "u1"]}

NextPicker ==
    \/ \E n \in PickerSeats : ToggleSeat(n)
    \/ PickerLoad
    \/ PickerHold
    \/ PickerReservar
    \/ \E req \in PickerRivalReqs : CreateHoldHandler(req)
    \/ Tick

SpecPicker == Init /\ [][NextPicker]_vars

(* Quantities priced: integers from below 1 up to MaxQuantity; the seat    *)
(* picker prices the number of selected seats, which is never negative.    *)
Quantities == (-2)..MaxQuantity

NextPrice ==
    \/ \E q \in Quantities : PriceService(q)
    \/ \E q \in Quantities : PriceDescuentos(q)
    \/ \E q \in 0..MaxQuantity : PriceSeatPicker(q)
    \/ \E q \in Quantities : PriceRoute(q)

SpecPrice == Init /\ [][NextPrice]_vars

TypeOK ==
    /\ now \in 0..MaxTime
    /\ nreq \in 0..MaxReq
    /\ nextUuid \in 1..(MaxReq + 1)
    /\ \A k \in DOMAIN holds : holds[k].expiresAt = holds[k].createdAt + SEAT_HOLD_TTL_MS

----------------------------------------------------------------------------
(* Vocabulary of the properties *)

(* The step answers a request of kind op *)
Answered(op) == nreq' = nreq + 1 /\ last'.op = op

(* The step answers a request of kind op that passed the handler's         *)
(* validation and reached the store                                        *)
Served(op) == Answered(op) /\ last'.status \in {200, 201, 409}

KeyOf(req) == makeKey(req.rutaId, req.fecha, req.asiento)

(* Available / Held / Reserved, read off the two maps *)
StateOf(h, r, k) == IF k \in DOMAIN r THEN "Reserved"
                    ELSE IF k \in DOMAIN h THEN "Held"
                    ELSE "Available"

----------------------------------------------------------------------------
(* C1: in every reachable state no resource key is present in both the     *)
(* holds map and the reserved map.                                         *)
C1_HoldXorReservation == (DOMAIN holds) \cap (DOMAIN reserved) = {}

(* Some key is reserved while another key is held *)
C1_Witness == DOMAIN holds # {} /\ DOMAIN reserved # {}

----------------------------------------------------------------------------
(* C2: two createHold requests for the same key, handled one after the     *)
(* other (in either order, with only timer purges and clock readings in    *)
(* between, before the winner's hold expires) while the key is available:  *)
(* the first handled succeeds, the second gets 409, and afterwards the map *)
(* holds exactly the winner's hold for the key.                            *)
C2_FirstWins ==
    (/\ Served("createHold")
     /\ StateOf(holds, reserved, KeyOf(last'.req)) = "Available")
    => /\ last'.status = 201
       /\ KeyOf(last'.req) \in DOMAIN holds'
       /\ holds'[KeyOf(last'.req)].holdId = last'.body.holdId
       /\ holds'[KeyOf(last'.req)].userId = last'.req.userId

C2_SecondLoses ==
    (/\ last.op = "createHold" /\ last.status = 201
     /\ Served("createHold")
     /\ KeyOf(last'.req) = KeyOf(last.req)
     /\ now < last.body.expiresAt)
    => /\ last'.status = 409
       /\ KeyOf(last.req) \in DOMAIN holds'
       /\ holds'[KeyOf(last.req)].holdId = last.body.holdId
       /\ holds'[KeyOf(last.req)].userId = last.req.userId

C2_RaceOneWinner == [][C2_FirstWins /\ C2_SecondLoses]_vars

(* The first two requests answered raced for one key: the second, by       *)
(* another claimant, got 409 and the first claimant's hold is the one      *)
(* stored.                                                                 *)
C2_Witness ==
    /\ nreq = 2
    /\ last.op = "createHold" /\ last.status = 409
    /\ KeyOf(last.req) \in DOMAIN holds
    /\ holds[KeyOf(last.req)].userId # last.req.userId

----------------------------------------------------------------------------
(* C3: a confirm request that reaches the store succeeds iff a hold is     *)
(* stored for the key when confirmReservation runs (the handler's sweep    *)
(* has dropped the holds with now > expiresAt) and its holdId equals the   *)
(* one presented; otherwise it is answered 409 and the reserved map and    *)
(* the holds the sweep left are unchanged.                                 *)
StoredAtCall(k) == k \in DOMAIN holds /\ ~(now > holds[k].expiresAt)

----------------------------------------------------------------------------
(* C4: a successful confirm removes the key's hold and stores, in the same *)
(* step, a reservation for the key carrying the holdId and the userId of   *)
(* the hold it removed, so that the key is never seen with both or with    *)
(* neither.                                                                *)
C4_ConfirmMovesHold ==
    [][(Answered("confirmReservation") /\ last'.status = 200) =>
        LET k == KeyOf(last'.req) IN
        /\ StateOf(holds, reserved, k) = "Held"
        /\ k \notin DOMAIN holds'
        /\ k \in DOMAIN reserved'
        /\ reserved'[k].holdId = holds[k].holdId
        /\ reserved'[k].holdId = last'.req.holdId
        /\ reserved'[k].userId = holds[k].userId
        /\ reserved'[k].reservedAt = last'.body.reservedAt]_vars

(* A hold was confirmed: the key is reserved under the holdId presented *)
C4_Witness ==
    /\ last.op = "confirmReservation" /\ last.status = 200
    /\ KeyOf(last.req) \in DOMAIN reserved
    /\ reserved[KeyOf(last.req)].holdId = last.req.holdId
    /\ reserved[KeyOf(last.req)].userId \in UserIds

----------------------------------------------------------------------------
(* C5: while a key's hold is stored (not released, not confirmed) and has  *)
(* not expired, every createHold on the key is answered 409, whatever the  *)
(* claimant.                                                               *)
C5_HeldKeyRefusesHold ==
    [][(/\ Served("createHold")
        /\ KeyOf(last'.req) \in DOMAIN holds
        /\ holds[KeyOf(last'.req)].expiresAt > now)
       => /\ last'.status = 409
          /\ last'.body.error = "Seat already occupied or on hold"]_vars

(* A later createHold by the holder itself, after the clock moved on, was  *)
(* refused while the hold was still running                                *)
C5_Witness ==
    /\ last.op = "createHold" /\ last.status = 409
    /\ KeyOf(last.req) \in DOMAIN holds
    /\ holds[KeyOf(last.req)].userId = last.req.userId
    /\ holds[KeyOf(last.req)].createdAt < now
    /\ holds[KeyOf(last.req)].expiresAt > now

----------------------------------------------------------------------------
(* C6: a confirm with the matching holdId and a release, or two such       *)
(* confirms, handled one after the other on a held key: the first handled  *)
(* succeeds and the second is answered 409.  After a winning confirm the   *)
(* key stays reserved, after a winning release it is available and not     *)
(* reserved.                                                               *)
C6_FirstSucceeds ==
    (/\ Served("releaseHold") \/ Served("confirmReservation")
     /\ StoredAtCall(KeyOf(last'.req))
     /\ last'.op = "confirmReservation" =>
            last'.req.holdId = holds[KeyOf(last'.req)].holdId)
    => last'.status = 200

C6_LoserAfterConfirm ==
    (/\ last.op = "confirmReservation" /\ last.status = 200
     /\ Served("releaseHold") \/ Served("confirmReservation")
     /\ KeyOf(last'.req) = KeyOf(last.req))
    => /\ last'.status = 409
       /\ StateOf(holds', reserved', KeyOf(last.req)) = "Reserved"
       /\ reserved'[KeyOf(last.req)] = reserved[KeyOf(last.req)]
       /\ KeyOf(last.req) \notin DOMAIN holds'

C6_LoserAfterRelease ==
    (/\ last.op = "releaseHold" /\ last.status = 200
     /\ Served("confirmReservation")
     /\ KeyOf(last'.req) = KeyOf(last.req))
    => /\ last'.status = 409
       /\ StateOf(holds', reserved', KeyOf(last.req)) = "Available"

C6_ConfirmReleaseExclusive ==
    [][C6_FirstSucceeds /\ C6_LoserAfterConfirm /\ C6_LoserAfterRelease]_vars

(* A release lost against the confirm of the same hold: it was answered    *)
(* 409 and the key is reserved                                             *)
C6_Witness ==
    /\ last.op = "releaseHold" /\ last.status = 409
    /\ StateOf(holds, reserved, KeyOf(last.req)) = "Reserved"

----------------------------------------------------------------------------
(* C7: per key, the state read off the maps changes only from Available to *)
(* Held (by a createHold answered 201 for the key), from Held to Reserved  *)
(* (by a confirm answered 200 for the key) and from Held to Available (by  *)
(* a release answered 200 for the key, or by a sweep of a hold past its    *)
(* expiry); a stored hold is replaced only when the same handler run swept *)
(* it and created the new one.                                             *)
TouchedKeys ==
    (DOMAIN holds) \cup (DOMAIN reserved) \cup (DOMAIN holds') \cup (DOMAIN reserved')

AnsweredFor(op, status, k) ==
    Answered(op) /\ last'.status = status /\ KeyOf(last'.req) = k

C7_KeyStep(k) ==
    LET s == StateOf(holds, reserved, k)
        t == StateOf(holds', reserved', k)
    IN /\ s # t =>
            \/ s = "Available" /\ t = "Held" /\ AnsweredFor("createHold", 201, k)
            \/ s = "Held" /\ t = "Reserved"
                 /\ AnsweredFor("confirmReservation", 200, k)
            \/ s = "Held" /\ t = "Available"
                 /\ \/ AnsweredFor("releaseHold", 200, k)
                    \/ now > holds[k].expiresAt
       /\ (s = "Held" /\ t = "Held" /\ holds'[k] # holds[k]) =>
            now > holds[k].expiresAt /\ AnsweredFor("createHold", 201, k)

C7_StateMachine == [][\A k \in TouchedKeys : C7_KeyStep(k)]_vars

(* A key was held, confirmed and is still reserved after the hold's        *)
(* lifetime, while the other holds created meanwhile are gone              *)
C7_Witness ==
    /\ DOMAIN holds = {}
    /\ nextUuid >= 3
    /\ \E k \in DOMAIN reserved : now > reserved[k].reservedAt + SEAT_HOLD_TTL_MS

----------------------------------------------------------------------------
(* C8: a reservation, once stored, is never changed or removed; every      *)
(* createHold on its key is answered 409 and every releaseHold on its key  *)
(* is answered with "Hold not found", whatever the time and the sweeps.    *)
C8_ReservedFrozen ==
    \A k \in DOMAIN reserved : k \in DOMAIN reserved' /\ reserved'[k] = reserved[k]

C8_ReservedRefuses ==
    /\ (Served("createHold") /\ KeyOf(last'.req) \in DOMAIN reserved) =>
           last'.status = 409
    /\ (Served("releaseHold") /\ KeyOf(last'.req) \in DOMAIN reserved) =>
           /\ last'.status = 409
           /\ last'.body.error = "Hold not found"

C8_ReservedIsTerminal == [][C8_ReservedFrozen /\ C8_ReservedRefuses]_vars

(* A createHold on a reserved key was refused after more than the hold     *)
(* lifetime had passed since the reservation                               *)
C8_Witness ==
    /\ last.op = "createHold" /\ last.status = 409
    /\ KeyOf(last.req) \in DOMAIN reserved
    /\ now > reserved[KeyOf(last.req)].reservedAt + SEAT_HOLD_TTL_MS

----------------------------------------------------------------------------
(* C9: a hold whose expiry has elapsed (expiresAt <= now when the request  *)
(* is handled) does not block: a createHold on its key by any claimant     *)
(* succeeds and installs a new hold with a new holdId.                     *)
C9_ExpiredHoldDoesNotBlock ==
    [][(/\ Served("createHold")
        /\ KeyOf(last'.req) \in DOMAIN holds
        /\ KeyOf(last'.req) \notin DOMAIN reserved
        /\ holds[KeyOf(last'.req)].expiresAt <= now)
       => /\ last'.status = 201
          /\ KeyOf(last'.req) \in DOMAIN holds'
          /\ holds'[KeyOf(last'.req)].holdId = last'.body.holdId
          /\ holds'[KeyOf(last'.req)].holdId # holds[KeyOf(last'.req)].holdId]_vars

----------------------------------------------------------------------------
(* C10: whenever a query for (rutaId, fecha) is answered, every seat whose *)
(* only occupant is a hold with expiresAt <= now is in the available list, *)
(* whether or not a sweep has run since the hold expired.                  *)
InList(x, list) == \E i \in 1..Len(list) : list[i] = x

C10_ExpiredSeatListed ==
    [][(Answered("getAvailableSeats") /\ last'.status = 200) =>
        \A k \in DOMAIN holds :
            (/\ holds[k].rutaId = last'.req.rutaId
             /\ holds[k].fecha = last'.req.fecha
             /\ ToNumber(holds[k].asiento) \in 1..TotalSeats
             /\ k \notin DOMAIN reserved
             /\ holds[k].expiresAt <= now)
            => InList(ToNumber(holds[k].asiento), last'.body.available)]_vars

----------------------------------------------------------------------------
(* C11: the list answered by GET /holds never contains a hold with         *)
(* expiresAt <= now, now being the clock reading getHolds took, whether or *)
(* not a sweep has removed the hold from the map.                          *)
C11_ListedHoldsAreLive ==
    [][Answered("getHolds") =>
        \A h \in last'.body.holds : h.expiresAt > now' /\ h.remainingMs > 0]_vars

(* The list was answered at the current reading with one hold in it, while *)
(* the map still stores a hold that lapsed at this very reading and is not *)
(* in the list                                                             *)
C11_Witness ==
    /\ last.op = "getHolds"
    /\ \E h \in last.body.holds : h.expiresAt - h.remainingMs = now
    /\ \E k \in DOMAIN holds :
          /\ holds[k].expiresAt <= now
          /\ \A h \in last.body.holds : h.holdId # holds[k].holdId

----------------------------------------------------------------------------
(* C12: a confirm that presents the id of an earlier hold, while the key   *)
(* carries a newer hold with another id, is answered 409, stores no        *)
(* reservation and leaves the newer hold as it was; a confirm presenting   *)
(* the newer hold's id is then answered 200.                               *)
IssuedBefore(id, h) == id # NoHoldId /\ id[2] >= 1 /\ id[2] < h.holdId[2]

C12_StaleRefused ==
    (/\ Served("confirmReservation")
     /\ StoredAtCall(KeyOf(last'.req))
     /\ IssuedBefore(last'.req.holdId, holds[KeyOf(last'.req)]))
    => /\ last'.status = 409
       /\ reserved' = reserved
       /\ KeyOf(last'.req) \in DOMAIN holds'
       /\ holds'[KeyOf(last'.req)] = holds[KeyOf(last'.req)]

C12_NewerStillConfirmable ==
    (/\ last.op = "confirmReservation" /\ last.status = 409
     /\ Served("confirmReservation")
     /\ KeyOf(last'.req) = KeyOf(last.req)
     /\ StoredAtCall(KeyOf(last'.req))
     /\ last'.req.holdId = holds[KeyOf(last'.req)].holdId)
    => /\ last'.status = 200
       /\ reserved'[KeyOf(last'.req)].holdId = last'.req.holdId

C12_StaleHoldIdRejected == [][C12_StaleRefused /\ C12_NewerStillConfirmable]_vars

(* The id of the first hold ever issued was presented and refused while    *)
(* the key carries the second hold issued, created after the first one's   *)
(* lifetime                                                                *)
C12_Witness ==
    /\ last.op = "confirmReservation" /\ last.status = 409
    /\ last.req.holdId = MakeHoldId(0, 1)
    /\ KeyOf(last.req) \in DOMAIN holds
    /\ holds[KeyOf(last.req)].holdId[2] = 2
    /\ holds[KeyOf(last.req)].createdAt > SEAT_HOLD_TTL_MS
    /\ DOMAIN reserved = {}

----------------------------------------------------------------------------
(* C13: a release request is answered "Hold not found", with holds and     *)
(* reservations left as they were, whenever the key has no active hold: no *)
(* hold is stored for it (never created, released, confirmed or swept) or  *)
(* the stored hold's expiry has elapsed (expiresAt <= now).                *)
C13_ReleaseWithoutActiveHold ==
    [][(/\ Served("releaseHold")
        /\ \/ KeyOf(last'.req) \notin DOMAIN holds
           \/ holds[KeyOf(last'.req)].expiresAt <= now)
       => /\ last'.status = 409
          /\ last'.body.error = "Hold not found"
          /\ reserved' = reserved
          /\ \A k \in DOMAIN holds :
                holds[k].expiresAt > now => (k \in DOMAIN holds' /\ holds'[k] = holds[k])]_vars

----------------------------------------------------------------------------
(* C14: a release answered 200 removes the hold of its key, which becomes  *)
(* available, adds nothing, changes no reservation and changes no hold of  *)
(* another key that has not expired.                                       *)
C14_ReleaseFrame ==
    [][(Answered("releaseHold") /\ last'.status = 200) =>
        LET k == KeyOf(last'.req) IN
        /\ k \in DOMAIN holds
        /\ StateOf(holds', reserved', k) = "Available"
        /\ DOMAIN holds' \subseteq (DOMAIN holds) \ {k}
        /\ reserved' = reserved
        /\ \A x \in (DOMAIN holds) \ {k} :
              holds[x].expiresAt > now => (x \in DOMAIN holds' /\ holds'[x] = holds[x])]_vars

(* A hold was released while the hold of another key, still running, stays *)
(* stored                                                                  *)
C14_Witness ==
    /\ last.op = "releaseHold" /\ last.status = 200
    /\ KeyOf(last.req) \notin DOMAIN holds
    /\ \E x \in DOMAIN holds : x # KeyOf(last.req) /\ holds[x].expiresAt > now

----------------------------------------------------------------------------
(* C15: a createHold answered 409 changes nothing: the hold stored on the  *)
(* key keeps its holdId, userId, createdAt and expiresAt, the reservations *)
(* are untouched, no id is consumed, and the only entries that leave the   *)
(* map are the expired ones the handler's sweep deletes.                   *)
C15_ConflictChangesNothing ==
    [][(Answered("createHold") /\ last'.status = 409) =>
        LET k == KeyOf(last'.req) IN
        /\ StateOf(holds', reserved', k) = StateOf(holds, reserved, k)
        /\ StateOf(holds, reserved, k) # "Available"
        /\ k \in DOMAIN holds' =>
              /\ k \in DOMAIN holds
              /\ holds'[k].holdId = holds[k].holdId
              /\ holds'[k].userId = holds[k].userId
              /\ holds'[k].createdAt = holds[k].createdAt
              /\ holds'[k].expiresAt = holds[k].expiresAt
        /\ reserved' = reserved
        /\ nextUuid' = nextUuid
        /\ DOMAIN holds' \subseteq DOMAIN holds
        /\ \A x \in DOMAIN holds' : holds'[x] = holds[x]
        /\ \A x \in (DOMAIN holds) \ (DOMAIN holds') : now > holds[x].expiresAt]_vars

(* Another claimant was refused some time after the hold was created, and  *)
(* the hold still belongs to the first claimant with its original expiry   *)
C15_Witness ==
    /\ last.op = "createHold" /\ last.status = 409
    /\ KeyOf(last.req) \in DOMAIN holds
    /\ holds[KeyOf(last.req)].userId # last.req.userId
    /\ holds[KeyOf(last.req)].createdAt < now
    /\ holds[KeyOf(last.req)].expiresAt =
           holds[KeyOf(last.req)].createdAt + SEAT_HOLD_TTL_MS

----------------------------------------------------------------------------
(* C18: no sweep, run by the timer or at the start of a request, removes   *)
(* or alters a hold whose expiresAt is later than now, or any reservation: *)
(* such a hold leaves the map or changes only by a release or a confirm    *)
(* answered 200 for its own key.                                           *)
C18_LiveHoldKept(k) ==
    \/ k \in DOMAIN holds' /\ holds'[k] = holds[k]
    \/ AnsweredFor("releaseHold", 200, k)
    \/ AnsweredFor("confirmReservation", 200, k)

C18_SweepSparesLiveState ==
    [][/\ \A k \in DOMAIN holds : holds[k].expiresAt > now => C18_LiveHoldKept(k)
       /\ \A k \in DOMAIN reserved :
             k \in DOMAIN reserved' /\ reserved'[k] = reserved[k]
       /\ (nreq' = nreq /\ now' = now) =>
             /\ reserved' = reserved
             /\ DOMAIN holds' \subseteq DOMAIN holds
             /\ \A k \in DOMAIN holds' : holds'[k] = holds[k]
             /\ \A k \in (DOMAIN holds) \ (DOMAIN holds') : holds[k].expiresAt < now]_vars

(* Two holds were created and a query answered, nothing was released or    *)
(* confirmed: the sweep took one hold and the one still running is stored  *)
C18_Witness ==
    /\ nreq = 3 /\ nextUuid = 3
    /\ last.op = "getAvailableSeats"
    /\ DOMAIN reserved = {}
    /\ Cardinality(DOMAIN holds) = 1
    /\ \A k \in DOMAIN holds : holds[k].expiresAt > now

----------------------------------------------------------------------------
(* C19: every stored hold has expiresAt = createdAt + SEAT_HOLD_TTL_MS,    *)
(* and the expiresAt answered by createHold is the one stored.             *)
C19_ExpiryIsCreationPlusTtl ==
    /\ \A k \in DOMAIN holds :
          holds[k].expiresAt = holds[k].createdAt + SEAT_HOLD_TTL_MS
    /\ (/\ last.op = "createHold" /\ last.status = 201
        /\ KeyOf(last.req) \in DOMAIN holds
        /\ holds[KeyOf(last.req)].holdId = last.body.holdId)
       => /\ holds[KeyOf(last.req)].expiresAt = last.body.expiresAt
          /\ last.body.remainingMs = SEAT_HOLD_TTL_MS

(* The hold just answered was created after the clock had moved on, and is *)
(* stored                                                                  *)
C19_Witness ==
    /\ last.op = "createHold" /\ last.status = 201
    /\ KeyOf(last.req) \in DOMAIN holds
    /\ holds[KeyOf(last.req)].holdId = last.body.holdId
    /\ holds[KeyOf(last.req)].createdAt > 0
    /\ last.body.expiresAt > SEAT_HOLD_TTL_MS

----------------------------------------------------------------------------
(* C16: a purge removes every hold whose expiresAt <= now (a hold whose    *)
(* expiresAt equals now included), removes no other hold and returns the   *)
(* number of holds it removed.                                             *)
TimerFired == nreq' = nreq /\ now' = now /\ last'.op = "purge"

C16_PurgeRemovesAllElapsed ==
    [][TimerFired =>
        /\ DOMAIN holds' = {k \in DOMAIN holds : ~(holds[k].expiresAt <= now)}
        /\ \A k \in DOMAIN holds' : holds'[k] = holds[k]
        /\ last'.body.purged =
               Cardinality({k \in DOMAIN holds : holds[k].expiresAt <= now})]_vars

----------------------------------------------------------------------------
(* C17 as stated: of two purges with no request handled in between, the   *)
(* second returns zero and leaves the store unchanged. A purge that has    *)
(* answered is the last thing recorded exactly while no handler has run    *)
(* since, so the store is as the first purge left it.                      *)
C17_SecondPurgeZeroAtAnyTime ==
    [][(last.op = "purge" /\ TimerFired) =>
        /\ last'.body.purged = 0
        /\ holds' = holds]_vars

(* C17, at one clock reading: a purge right after a purge, with the same   *)
(* Date.now() and no request handled in between, returns zero and leaves   *)
(* holds and reservations as the first purge left them.                    *)
C17_SecondPurgeIsNoop ==
    [][(last.op = "purge" /\ last.req.at = now /\ TimerFired) =>
        /\ last'.body.purged = 0
        /\ holds' = holds
        /\ reserved' = reserved]_vars

(* The timer has fired twice at one reading: two holds elapsed just before *)
(* it, the first firing swept them and the second returned zero            *)
C17_Witness ==
    /\ last.op = "purge" /\ last.req.at = now
    /\ last.body.purged = 0
    /\ nreq = 2 /\ Cardinality(issued) = 2
    /\ \A id \in issued : id[1] + SEAT_HOLD_TTL_MS + 1 = now
    /\ DOMAIN holds = {}

----------------------------------------------------------------------------
(* C20: the holdId answered by a successful createHold differs from every  *)
(* holdId answered before, on any key, whatever became of those holds.     *)
C20_HoldIdNeverReused ==
    [][(Answered("createHold") /\ last'.status = 201) =>
        /\ last'.body.holdId \notin issued
        /\ \A k \in DOMAIN holds : holds[k].holdId # last'.body.holdId
        /\ \A k \in DOMAIN reserved : reserved[k].holdId # last'.body.holdId]_vars

(* Three holds were answered, the first two at one clock reading, and none *)
(* of them is stored any more as a hold                                    *)
C20_Witness ==
    /\ Cardinality(issued) = 3
    /\ \E a, b \in issued : a # b /\ a[1] = b[1]
    /\ DOMAIN holds = {}

----------------------------------------------------------------------------
(* C21: the list answered to a query for (rutaId, fecha) is ascending,     *)
(* without duplicates, and holds exactly the seat numbers in 1..40 whose   *)
(* key for that rutaId and fecha has neither a hold with expiresAt > now   *)
(* nor a reservation; with an empty store it is 1..40.                     *)
FreeSeats(h, r, rutaId, fecha, t) ==
    {n \in 1..TotalSeats :
        LET k == makeKey(rutaId, fecha, Num(n)) IN
        /\ k \notin DOMAIN r
        /\ ~(k \in DOMAIN h /\ h[k].expiresAt > t)}

C21_AvailableIsExactlyFree ==
    [][(Answered("getAvailableSeats") /\ last'.status = 200) =>
        LET a == last'.body.available IN
        /\ \A i, j \in 1..Len(a) : i < j => a[i] < a[j]
        /\ {a[i] : i \in 1..Len(a)} =
               FreeSeats(holds, reserved, last'.req.rutaId, last'.req.fecha, now)
        /\ (holds = EmptyMap /\ reserved = EmptyMap) =>
               a = [i \in 1..TotalSeats |-> i]]_vars

----------------------------------------------------------------------------
(* C22: the list answered by GET /holds has every hold that is in the map  *)
(* after the handler's purge, each exactly once, with remainingMs equal to *)
(* expiresAt minus the clock reading of the call, and 0 < remainingMs <=   *)
(* TTL for every listed hold.                                              *)
C22_ListsEveryRemainingHold ==
    [][Answered("getHolds") =>
        LET listed == last'.body.holds IN
        /\ \A k \in DOMAIN holds' :
               \E e \in listed : e.holdId = holds'[k].holdId
        /\ \A e \in listed :
               \E k \in DOMAIN holds' :
                   /\ holds'[k].holdId = e.holdId
                   /\ e.expiresAt = holds'[k].expiresAt
                   /\ e.remainingMs = holds'[k].expiresAt - now'
        /\ last'.body.count = Cardinality(DOMAIN holds')
        /\ \A e \in listed :
               0 < e.remainingMs /\ e.remainingMs <= SEAT_HOLD_TTL_MS]_vars

----------------------------------------------------------------------------
(* C24: the refusals fall in two kinds.  A confirm on a key with no hold,  *)
(* a confirm with another holdId and a createHold on an occupied key are   *)
(* answered alike (Conflict); the answer of a release on a key with no     *)
(* hold (NotFound: status 409 with error "Hold not found") is given to no  *)
(* other request.                                                          *)
IsNotFoundAnswer(resp) == resp.status = 409 /\ resp.body.error = "Hold not found"

C24_TwoErrorKinds ==
    [][/\ (Served("releaseHold") /\ last'.status # 200) => IsNotFoundAnswer(last')
       /\ (/\ Served("createHold") \/ Served("confirmReservation")
           /\ last'.status \notin {200, 201})
          => last'.status = 409 /\ ~IsNotFoundAnswer(last')]_vars

----------------------------------------------------------------------------
(* C23: entries are told apart by their tuple (rutaId, fecha, seat number) *)
(* alone.  A request for a tuple for which nothing is stored is served as  *)
(* for a free seat (createHold succeeds, release and confirm are refused), *)
(* and a query lists a seat of its (rutaId, fecha) exactly when nothing is *)
(* stored for that tuple, whatever is stored for other tuples and whatever *)
(* characters rutaId and fecha contain.                                    *)
SameTuple(e, rutaId, fecha, n) ==
    e.rutaId = rutaId /\ e.fecha = fecha /\ ToNumber(e.asiento) = n

StoredFor(h, r, rutaId, fecha, n) ==
    \/ \E k \in DOMAIN h : SameTuple(h[k], rutaId, fecha, n)
    \/ \E k \in DOMAIN r : SameTuple(r[k], rutaId, fecha, n)

C23_NothingStored ==
    ~StoredFor(holds, reserved, last'.req.rutaId, last'.req.fecha,
               ToNumber(last'.req.asiento))

C23_KeysAreTuples ==
    [][/\ (Served("createHold") /\ C23_NothingStored) => last'.status = 201
       /\ (Served("releaseHold") /\ C23_NothingStored) => last'.status = 409
       /\ (Served("confirmReservation") /\ C23_NothingStored) =>
              last'.status = 409
       /\ (Answered("getAvailableSeats") /\ last'.status = 200) =>
              \A n \in 1..TotalSeats :
                  InList(n, last'.body.available) <=>
                      ~StoredFor(holds', reserved', last'.req.rutaId,
                                 last'.req.fecha, n)]_vars

----------------------------------------------------------------------------
(* C25: every handler sweeps before it validates and before it touches the *)
(* store, in the step in which it answers: a hold with now > expiresAt is  *)
(* gone after any answered request, a rejected one (400) included, and the *)
(* answer is the one the swept store gives (the key of a swept hold takes  *)
(* a new hold, refuses release and confirm, is listed as available and is  *)
(* not listed as held).  A step that answers nothing and changes the holds *)
(* is the timer's sweep: it removes the holds with now > expiresAt and     *)
(* nothing else.                                                           *)
Swept(k) == k \in DOMAIN holds /\ now > holds[k].expiresAt

C25_SweepThenServe ==
    /\ \A k \in DOMAIN holds :
           Swept(k) =>
               k \notin DOMAIN holds' \/ holds'[k].holdId # holds[k].holdId
    /\ (Served("createHold") /\ Swept(KeyOf(last'.req))) => last'.status = 201
    /\ (/\ Served("releaseHold") \/ Served("confirmReservation")
        /\ Swept(KeyOf(last'.req))) => last'.status = 409
    /\ (Answered("getAvailableSeats") /\ last'.status = 200) =>
           \A k \in DOMAIN holds :
               (/\ Swept(k) /\ k \notin DOMAIN reserved
                /\ holds[k].rutaId = last'.req.rutaId
                /\ holds[k].fecha = last'.req.fecha)
               => InList(ToNumber(holds[k].asiento), last'.body.available)
    /\ Answered("getHolds") =>
           \A k \in DOMAIN holds :
               Swept(k) => \A e \in last'.body.holds : e.holdId # holds[k].holdId

C25_TimerSweeps ==
    /\ DOMAIN holds' = {k \in DOMAIN holds : ~Swept(k)}
    /\ \A k \in DOMAIN holds' : holds'[k] = holds[k]
    /\ UNCHANGED <<reserved, last, now>>

C25_PurgeBeforeOperation ==
    [][/\ nreq' = nreq + 1 => C25_SweepThenServe
       /\ (nreq' = nreq /\ holds' # holds) => C25_TimerSweeps]_vars

(* The second request answered was a release without fecha, rejected with  *)
(* 400, at the first reading past the expiry of the only hold created: the *)
(* hold is gone                                                            *)
C25_Witness ==
    /\ nreq = 2 /\ last.op = "releaseHold" /\ last.status = 400
    /\ Cardinality(issued) = 1
    /\ \A id \in issued : id[1] + SEAT_HOLD_TTL_MS + 1 = now
    /\ DOMAIN holds = {}

----------------------------------------------------------------------------
(* C26: the process whose timer fires at arbitrary points and its twin     *)
(* whose timer never fires, given the same requests at the same clock      *)
(* readings, send the same response to every request, and hold the same    *)
(* reservations.                                                           *)
C26_TimerUnobservable ==
    /\ twin.last = last
    /\ twin.reserved = reserved

(* Two holds were created, the second at least one reading after the first *)
(* was due to be swept by any handler; the timer swept the first before,   *)
(* and the second is stored                                                *)
C26_Witness ==
    /\ twin.timerSwept
    /\ nreq = 2 /\ Cardinality(issued) = 2
    /\ last.op = "createHold" /\ last.status = 201
    /\ KeyOf(last.req) \in DOMAIN holds
    /\ holds[KeyOf(last.req)].holdId = last.body.holdId
    /\ \E id \in issued : last.body.holdId[1] >= id[1] + SEAT_HOLD_TTL_MS + 2

----------------------------------------------------------------------------
(* C27: every hold stored is eventually gone from the holds map, whether   *)
(* or not a request ever arrives again, given that time advances and the   *)
(* timer keeps firing.  The clock of the model stops at MaxTime, so the    *)
(* holds followed are those due before it.                                 *)
HeldAs(u) == \E k \in DOMAIN holds : holds[k].holdId[2] = u

DueAs(u) ==
    \E k \in DOMAIN holds :
        holds[k].holdId[2] = u /\ holds[k].expiresAt < MaxTime

C27_EveryHoldGoes == \A u \in 1..MaxReq : DueAs(u) ~> ~HeldAs(u)

(* The only request answered created a hold, which is gone: no handler ran *)
(* after it, the timer swept it                                            *)
C27_Witness ==
    /\ nreq = 1 /\ last.op = "createHold" /\ last.status = 201
    /\ DOMAIN holds = {}
    /\ now > last.body.expiresAt

----------------------------------------------------------------------------
(* C28: a createHold, releaseHold or confirm request for key k leaves      *)
(* every other key as it was, except that holds of other keys with         *)
(* now > expiresAt may be swept: no other key gains a hold or a            *)
(* reservation, no stored hold of another key is altered, a hold of        *)
(* another key with expiresAt > now stays, and every reservation stays.    *)
C28_OtherKeyKept(k) ==
    /\ k \in DOMAIN reserved <=> k \in DOMAIN reserved'
    /\ k \in DOMAIN reserved => reserved'[k] = reserved[k]
    /\ k \in DOMAIN holds' => k \in DOMAIN holds /\ holds'[k] = holds[k]
    /\ (k \in DOMAIN holds /\ holds[k].expiresAt > now) => k \in DOMAIN holds'
    /\ (k \in DOMAIN holds /\ k \notin DOMAIN holds') => now > holds[k].expiresAt

C28_NoOtherKeyTouched ==
    [][(\/ Answered("createHold") \/ Answered("releaseHold")
        \/ Answered("confirmReservation"))
       => \A k \in TouchedKeys \ {KeyOf(last'.req)} : C28_OtherKeyKept(k)]_vars

(* A hold was confirmed while the same claimant's hold on another key was  *)
(* running: that hold is still stored                                      *)
C28_Witness ==
    /\ last.op = "confirmReservation" /\ last.status = 200
    /\ \E k \in DOMAIN holds :
           /\ k # KeyOf(last.req)
           /\ holds[k].userId = reserved[KeyOf(last.req)].userId
           /\ holds[k].expiresAt > now

----------------------------------------------------------------------------
(* C29: a query for available seats or a listing of the holds changes no   *)
(* reservation and no stored hold; the only holds missing afterwards are   *)
(* holds with expiresAt <= now, and a hold with expiresAt > now stays.     *)
C29_ReadsOnlySweep ==
    [][(Answered("getAvailableSeats") \/ Answered("getHolds")) =>
        /\ reserved' = reserved
        /\ DOMAIN holds' \subseteq DOMAIN holds
        /\ \A k \in DOMAIN holds' : holds'[k] = holds[k]
        /\ \A k \in DOMAIN holds :
               /\ holds[k].expiresAt > now => k \in DOMAIN holds'
               /\ k \notin DOMAIN holds' => holds[k].expiresAt <= now]_vars

(* Of two holds created, the listing that followed swept or found swept    *)
(* the first and listed the second, which is stored unchanged              *)
C29_Witness ==
    /\ nreq = 3 /\ last.op = "getHolds" /\ last.body.count = 1
    /\ Cardinality(issued) = 2
    /\ Cardinality(DOMAIN holds) = 1
    /\ \A k \in DOMAIN holds :
           holds[k].expiresAt = holds[k].createdAt + SEAT_HOLD_TTL_MS

----------------------------------------------------------------------------
(* C30: a request answered 400 creates, releases and confirms nothing (the *)
(* maps change by the sweep alone and no holdId is issued); a createHold   *)
(* with a field missing or with a seat that is not a number in 1..40 (as a *)
(* number or in digits) is answered 400, as are a release and a confirm    *)
(* with a field missing; and no hold and no reservation is ever stored for *)
(* a seat outside 1..40.                                                   *)
MissingField(op, req) ==
    CASE op = "createHold" ->
             \/ req.rutaId = <<>> \/ req.fecha = <<>>
             \/ req.asiento = Undefined \/ req.userId = ""
      [] op = "releaseHold" ->
             req.rutaId = <<>> \/ req.fecha = <<>> \/ req.asiento = Undefined
      [] op = "confirmReservation" ->
             \/ req.rutaId = <<>> \/ req.fecha = <<>>
             \/ req.asiento = Undefined \/ req.holdId = NoHoldId
      [] op = "getAvailableSeats" -> req.rutaId = <<>> \/ req.fecha = <<>>
      [] OTHER -> FALSE

SeatInRange(a) ==
    \/ a.kind = "num" /\ a.n \in 1..TotalSeats
    \/ a.kind = "str" /\ ToNumber(a) \in 1..TotalSeats

C30_InvalidRequest ==
    \/ MissingField(last'.op, last'.req)
    \/ last'.op = "createHold" /\ ~SeatInRange(last'.req.asiento)

C30_InvalidChangesNothing ==
    [][/\ (nreq' = nreq + 1 /\ C30_InvalidRequest) => last'.status = 400
       /\ (nreq' = nreq + 1 /\ last'.status = 400) =>
              /\ reserved' = reserved
              /\ issued' = issued
              /\ DOMAIN holds' = {k \in DOMAIN holds : ~(now > holds[k].expiresAt)}
              /\ \A k \in DOMAIN holds' : holds'[k] = holds[k]
       /\ \A k \in DOMAIN holds' : SeatInRange(holds'[k].asiento)
       /\ \A k \in DOMAIN reserved' : SeatInRange(reserved'[k].asiento)]_vars

----------------------------------------------------------------------------
(* C31: a confirm handled when the stored hold of its key has              *)
(* expiresAt <= now is refused, whatever holdId it presents, and stores no *)
(* reservation.                                                            *)
C31_ElapsedHoldNotConfirmable ==
    [][(/\ Served("confirmReservation")
        /\ KeyOf(last'.req) \in DOMAIN holds
        /\ holds[KeyOf(last'.req)].expiresAt <= now)
       => /\ last'.status = 409
          /\ reserved' = reserved]_vars

----------------------------------------------------------------------------
(* C32: at any instant, for every seat 1..40 of a route and date, exactly  *)
(* one of these holds: the seat is in the list a query would be answered   *)
(* now, a hold for it is in the list GET /holds would be answered now, or  *)
(* it is reserved.                                                         *)
AvailableNow(rutaId, fecha) ==
    QueryOn(holds, reserved, [rutaId |-> rutaId, fecha |-> fecha], now)
        .body.available

ListedNow == HoldsOn(holds, reserved, now, now).body.holds

ViewsOf(rutaId, fecha, n) ==
    <<InList(n, AvailableNow(rutaId, fecha)),
      \E e \in ListedNow :
          e.rutaId = rutaId /\ e.fecha = fecha /\ ToNumber(e.asiento) = n,
      \E k \in DOMAIN reserved :
          SameTuple(reserved[k], rutaId, fecha, n)>>

C32_ThreeViewsAgree ==
    \A rutaId \in RutaIds, fecha \in Fechas, n \in 1..TotalSeats :
        ViewsOf(rutaId, fecha, n) \in
            {<<TRUE, FALSE, FALSE>>, <<FALSE, TRUE, FALSE>>,
             <<FALSE, FALSE, TRUE>>}

----------------------------------------------------------------------------
(* C33: at any instant and for any route and date, a seat number is in the *)
(* list a query would be answered now exactly when a createHold for that   *)
(* route, date and seat handled now would be answered 201.                 *)
CreateSucceedsNow(rutaId, fecha, n) ==
    CreateOn(holds, reserved,
             [rutaId |-> rutaId, fecha |-> fecha, asiento |-> Num(n),
              userId |-> "u1"], now, now, nextUuid).status = 201

C33_QueryAgreesWithCreate ==
    \A rutaId \in RutaIds \cup SepRutaIds, fecha \in Fechas \cup SepFechas,
       n \in 1..TotalSeats :
        InList(n, AvailableNow(rutaId, fecha))
            <=> CreateSucceedsNow(rutaId, fecha, n)

----------------------------------------------------------------------------
(* C34 as stated: a createHold answered 201 and a release of the same key  *)
(* handled right after it, which succeeds, leave the holds map and the     *)
(* reserved map exactly as they were before the createHold, and a          *)
(* createHold on the key handled next succeeds.                            *)
ReleaseAfter ==
    ReleaseOn(holds', reserved',
              [rutaId |-> last'.req.rutaId, fecha |-> last'.req.fecha,
               asiento |-> last'.req.asiento], now')

CreateAfterRelease ==
    CreateOn(ReleaseAfter.holds, ReleaseAfter.reserved, last'.req, now', now',
             nextUuid')

C34_RoundTripRestoresMaps ==
    [][(Answered("createHold") /\ last'.status = 201) =>
        /\ ReleaseAfter.status = 200
        /\ ReleaseAfter.holds = holds
        /\ ReleaseAfter.reserved = reserved
        /\ CreateAfterRelease.status = 201]_vars

(* C34, with the sweeps: the release succeeds, the reserved map is as it   *)
(* was before the createHold, the holds map is as it was before the        *)
(* createHold less the holds whose expiresAt is earlier than the clock at  *)
(* the release, and a createHold on the key handled next succeeds.         *)
C34_RoundTripUpToSweep ==
    [][(Answered("createHold") /\ last'.status = 201) =>
        /\ ReleaseAfter.status = 200
        /\ DOMAIN ReleaseAfter.holds =
               {k \in DOMAIN holds : ~(holds[k].expiresAt < now')}
        /\ \A k \in DOMAIN ReleaseAfter.holds : ReleaseAfter.holds[k] = holds[k]
        /\ ReleaseAfter.reserved = reserved
        /\ CreateAfterRelease.status = 201]_vars

(* Three requests were answered: a hold was created, then, past its        *)
(* expiry, a second one, which was released at the reading of its          *)
(* creation; the map is empty, the first hold having been swept            *)
C34_Witness ==
    /\ nreq = 3 /\ last.op = "releaseHold" /\ last.status = 200
    /\ Cardinality(issued) = 2
    /\ \E id \in issued : id[1] = now
    /\ DOMAIN holds = {} /\ DOMAIN reserved = {}

----------------------------------------------------------------------------
(* C35: a seat is occupied once, in whatever form its number is sent: a    *)
(* createHold for a seat number of which a hold is stored (and is not      *)
(* swept by the handler) is answered 409, and no two stored holds are for  *)
(* the same route, date and seat number.                                   *)
C35_HeldAs(h, req) ==
    \E k \in DOMAIN h :
        /\ ~(now > h[k].expiresAt)
        /\ SameTuple(h[k], req.rutaId, req.fecha, ToNumber(req.asiento))

C35_OneHoldPerSeatNumber ==
    [][/\ (Served("createHold") /\ C35_HeldAs(holds, last'.req)) =>
              last'.status = 409
       /\ \A k1, k2 \in DOMAIN holds' :
              SameTuple(holds'[k1], holds'[k2].rutaId, holds'[k2].fecha,
                        ToNumber(holds'[k2].asiento)) => k1 = k2]_vars

----------------------------------------------------------------------------
(* C36: for every integer quantity >= 1 each version of calculatePrice     *)
(* returns baseTotal = 50000 * quantity, discountPercent 0 for 1 seat, 5   *)
(* for 2, 7 for 3 and 10 for 4 or more, discountAmount = baseTotal *       *)
(* discountPercent / 100 and total = baseTotal - discountAmount; for a     *)
(* quantity below 1 it rejects the call and returns no price.              *)
C36_PriceOf(q, b) ==
    /\ ~b.rejected
    /\ b.baseTotal = 50000 * q
    /\ b.discountPercent = (CASE q = 1 -> 0 [] q = 2 -> 5 [] q = 3 -> 7
                              [] OTHER -> 10)
    /\ 100 * b.discountAmount = b.baseTotal * b.discountPercent
    /\ b.total = b.baseTotal - b.discountAmount

C36_PriceTable ==
    [][last'.op = "calculatePrice" =>
        IF last'.req.quantity >= 1
        THEN C36_PriceOf(last'.req.quantity, last'.body)
        ELSE last'.body.rejected]_vars

----------------------------------------------------------------------------
(* The picker's hold() receives the answer to one of its hold requests *)
PickerAsked ==
    /\ ui.pc = "holding"
    /\ nreq' = nreq + 1
    /\ last'.op = "createHold"
    /\ last'.req.userId = PickerUserId

(* The keys of the seats hold() has got a hold for in the running batch *)
EarlierKeys ==
    {makeKey(PickerRutaId, PickerFecha, Num(ui.batch[i])) :
        i \in 1..Len(ui.holdIds)}

(* load() called by hold() after it stopped *)
PickerReloaded == ui.pc = "reload" /\ ui'.pc = "idle"

C38_GridShowsAvailable ==
    (ui.data.set /\ ui.data.body.ok) =>
        \A i \in 1..Len(ui.data.body.available) :
            \E s \in GridSeats :
                /\ s.numero = ui.data.body.available[i]
                /\ s.estado = "available"

====
